---- MODULE Spec2Model ----
(***************************************************************************)
(* archSnap: the mesh worker of src/archsnap/mesh/mesh.py.                 *)
(*                                                                         *)
(* A process runs one of the two entry points, render_mesh (one job of a   *)
(* batch) or get_mesh_args (the size probe), against its own Blender       *)
(* instance.  The instance is modelled by the values the code sets and by  *)
(* the log of the bpy calls it makes.  Floats are modelled by exact        *)
(* rationals <<numerator, denominator>>; file names and paths are          *)
(* sequences of one-character strings.                                     *)
(***************************************************************************)
EXTENDS Integers, Sequences, FiniteSets, TLC

VARIABLES
    queue,      \* queue[w]: the MeshQueueItem (or mesh path) the process was given
    call,       \* call[w]: the entry point the process runs
    pc,         \* pc[w]: the position of the process in its function
    exc,        \* exc[w]: the exception that ended the process, "none" otherwise
    ret,        \* ret[w]: the value get_mesh_args returned
    loc,        \* loc[w]: the local variables of the function
    scene,      \* scene[w]: the state of the process's Blender instance
    calls,      \* calls[w]: the bpy calls made so far, in order
    mesh,       \* mesh[w]: the mesh file: its bounding box and what importing it reports
    template,   \* the objects of the bundled template scene
    dirs,       \* the directories that exist under the output root
    saved,      \* the render files written: <<file path, job index>>
    failures    \* the frame renders that reported non-success so far

vars == <<queue, call, pc, exc, ret, loc, scene, calls, mesh, template,
          dirs, saved, failures>>

\* what no function of mesh.py changes
given == <<queue, call, mesh, template>>

----------------------------------------------------------------------------
(* Bounds of the model *)

\* numerators of the tick sizes and scale factors a job may ask for
MaxNum == 2
\* frame renders that may report non-success in one run
MaxRenderFailures == 1
\* jobs of the batch specification
BatchSize == 2

----------------------------------------------------------------------------
(* Rationals *)

Abs(n) == IF n < 0 THEN -n ELSE n

RECURSIVE GCD(_, _)
GCD(a, b) == IF b = 0 THEN a ELSE GCD(b, a % b)

\* the rational n/d (d # 0) in lowest terms with a positive denominator
Rat(n, d) ==
    LET s == IF d < 0 THEN -1 ELSE 1
        g == GCD(Abs(n), Abs(d))
    IN  <<(s * n) \div g, (s * d) \div g>>

RMul(a, b) == Rat(a[1] * b[1], a[2] * b[2])
RDiv(a, b) == Rat(a[1] * b[2], a[2] * b[1])
RSub(a, b) == Rat(a[1] * b[2] - b[1] * a[2], a[2] * b[2])
RLt(a, b) == a[1] * b[2] < b[1] * a[2]
RMax(a, b) == IF RLt(a, b) THEN b ELSE a
Zero == Rat(0, 1)
One == Rat(1, 1)
Ten == Rat(10, 1)

RECURSIVE Pow10(_)
Pow10(k) == IF k = 0 THEN 1 ELSE 10 * Pow10(k - 1)

----------------------------------------------------------------------------
(* Strings as sequences of characters *)

Digit(n) == CASE n = 0 -> "0" [] n = 1 -> "1" [] n = 2 -> "2" [] n = 3 -> "3"
              [] n = 4 -> "4" [] n = 5 -> "5" [] n = 6 -> "6" [] n = 7 -> "7"
              [] n = 8 -> "8" [] n = 9 -> "9"

\* str(n) of a natural number
RECURSIVE StrNat(_)
StrNat(n) == IF n < 10 THEN <<Digit(n)>> ELSE StrNat(n \div 10) \o <<Digit(n % 10)>>

\* s.replace(old, new) for single characters
Replace(s, old, new) == [i \in 1..Len(s) |-> IF s[i] = old THEN new ELSE s[i]]

\* s.rfind("."): the last position of a dot, 0 when there is none
RFindDot(s) ==
    LET at == {i \in 1..Len(s) : s[i] = "."}
    IN  IF at = {} THEN 0 ELSE CHOOSE i \in at : \A j \in at : j <= i

\* pathlib's PurePath.suffix of a file name
Suffix(name) ==
    LET i == RFindDot(name)
    IN  IF 1 < i /\ i < Len(name) THEN SubSeq(name, i, Len(name)) ELSE <<>>

\* hexadecimal value of one character, as int(c, 16) reads it
HexVal(c) == CASE c = "0" -> 0 [] c = "1" -> 1 [] c = "2" -> 2 [] c = "3" -> 3
               [] c = "4" -> 4 [] c = "5" -> 5 [] c = "6" -> 6 [] c = "7" -> 7
               [] c = "8" -> 8 [] c = "9" -> 9 [] c = "a" -> 10 [] c = "b" -> 11
               [] c = "c" -> 12 [] c = "d" -> 13 [] c = "e" -> 14 [] c = "f" -> 15

\* s.lstrip("#")
RECURSIVE LStripHash(_)
LStripHash(s) == IF s # <<>> /\ Head(s) = "#" THEN LStripHash(Tail(s)) ELSE s

----------------------------------------------------------------------------
(* Rounding and the formatting of numbers *)

\* floor of a rational
RFloor(q) == q[1] \div q[2]

\* round(q) of a non-negative rational: to the nearest integer, a tie to the even one
RoundHalfEven(q) ==
    LET n == RFloor(q)
        twice == 2 * (q[1] - n * q[2])
    IN  IF twice < q[2] THEN n
        ELSE IF twice > q[2] THEN n + 1
        ELSE IF n % 2 = 0 THEN n ELSE n + 1

\* q.is_integer()
IsInteger(q) == q[2] = 1

\* math.floor(math.log10(q)) of a positive rational
RECURSIVE FloorLog10(_)
FloorLog10(q) ==
    IF ~ RLt(q, Ten) THEN 1 + FloorLog10(RDiv(q, Ten))
    ELSE IF RLt(q, One) THEN FloorLog10(RMul(q, Ten)) - 1
    ELSE 0

\* round(q, ndigits) of a non-negative rational
RoundDigits(q, ndigits) ==
    IF ndigits >= 0
    THEN Rat(RoundHalfEven(RMul(q, Rat(Pow10(ndigits), 1))), Pow10(ndigits))
    ELSE Rat(RoundHalfEven(RDiv(q, Rat(Pow10(-ndigits), 1))) * Pow10(-ndigits), 1)

\* mesh.py 88-91: the tick size rounded to its leading digit (215 -> 200)
NiceRound(initial) == RoundDigits(initial, -FloorLog10(initial))

\* mesh.py 251-255: label_tick_size
LabelTickSize(tick) ==
    IF IsInteger(tick) THEN Rat(RoundHalfEven(tick), 1) ELSE RoundDigits(tick, 4)

\* the digits of the fraction v / 10^width, v < 10^width, without trailing zeros
RECURSIVE FracDigits(_, _)
FracDigits(v, width) ==
    IF width = 1 \/ v % Pow10(width - 1) = 0
    THEN <<Digit(v \div Pow10(width - 1))>>
    ELSE <<Digit(v \div Pow10(width - 1))>> \o FracDigits(v % Pow10(width - 1), width - 1)

\* str(label_tick_size): an int prints its digits, a float its shortest decimal
\* form.  isInt tells the two apart: round(x) is an int, round(x, 4) a float.
StrLabel(label, isInt) ==
    IF isInt THEN StrNat(label[1])
    ELSE LET v == RoundHalfEven(RMul(label, Rat(Pow10(4), 1)))
         IN  StrNat(v \div Pow10(4)) \o <<".">> \o FracDigits(v % Pow10(4), 4)

----------------------------------------------------------------------------
(* Paths: sequences of components, each a sequence of characters *)

\* mesh_path.name
Name(path) == path[Len(path)]

\* mesh.py 122: the per-job directory name f"{index}_{mesh_path.name.replace('.', '_')}"
JobDirName(index, mesh_path) ==
    StrNat(index) \o <<"_">> \o Replace(Name(mesh_path), ".", "_")

\* mesh.py 119-122: the output directory of a job
ResolveOutputPath(item) ==
    IF item.separate_output_directories
    THEN Append(item.output_path, JobDirName(item.index, item.mesh_path))
    ELSE item.output_path

\* mesh.py 305-309: the file a frame is saved to
RenderPath(output_path, mesh_path, i, label, isInt) ==
    Append(output_path,
           Replace(Name(mesh_path), ".", "_")
           \o <<"_", "r", "e", "n", "d", "e", "r", "_">>
           \o StrNat(i)
           \o <<"_", "t", "i", "c", "k", "_", "l", "e", "n", "g", "t", "h", "_">>
           \o Replace(StrLabel(label, isInt), ".", "-")
           \o <<"c", "m", ".", "p", "n", "g">>)

\* output_path.mkdir(parents=True, exist_ok=True): the path and all its parents
WithParents(path) == {SubSeq(path, 1, k) : k \in 1..Len(path)}

----------------------------------------------------------------------------
(* import_mesh *)

\* mesh.py 30-40: the import operator an extension selects, "406" for any other
ImportOperator(extension) ==
    CASE extension = <<".", "p", "l", "y">> -> "wm.ply_import"
      [] extension = <<".", "o", "b", "j">> -> "wm.obj_import"
      [] extension = <<".", "s", "t", "l">> -> "wm.stl_import"
      [] extension = <<".", "d", "a", "e">> -> "wm.dae_import"
      [] OTHER -> "406"

\* what a bpy operator returns: a set of status strings
EngineResults == {{"FINISHED"}, {"CANCELLED"}}

\* a test that takes any answer of the engine for a finished import
ImportFinished_AnyStatus(import_result) == import_result # {}

\* mesh.py 54, 180: "FINISHED" in import_result
ImportFinished(import_result) == "FINISHED" \in import_result

\* mesh.py 77, 207, 211: max(obj.dimensions[0:3])
MaxDimension(dimensions) == RMax(dimensions[1], RMax(dimensions[2], dimensions[3]))

\* obj.scale = (f, f, f) followed by transform_apply(scale=True)
Scaled(dimensions, f) == [k \in 1..3 |-> RMul(dimensions[k], f)]

----------------------------------------------------------------------------
(* The template scene and the engine instance *)

\* mesh.py 259-264: the label and stroke objects, in the order of the list
Labels == <<"Scale Label Left", "Scale Label Bottom",
            "Scale Stroke Left", "Scale Stroke Bottom">>

\* the objects render_mesh looks up in bpy.data.objects
TemplateObjects == {"Scale Bar"} \cup {Labels[k] : k \in 1..Len(Labels)}

\* mesh.py 146: the compute types, in the order they are tried
ComputeTypes == <<"CUDA", "OPTIX", "HIP", "ONEAPI">>

\* mesh.py 270: " Bottom" in x.name
IsBottom(name) == name \in {"Scale Label Bottom", "Scale Stroke Bottom"}

\* a label or stroke object as the template holds it
TemplateLabel == [body |-> <<>>, moved |-> FALSE, x |-> Zero, y |-> Zero]

\* a Blender instance before the worker has touched it
FreshScene ==
    [running |-> TRUE,
     loaded |-> FALSE,
     objects |-> {},
     resolution |-> <<0, 0, 0>>,
     engine |-> "startup",
     compute_device_type |-> "preferences",
     device |-> "startup",
     has_obj |-> FALSE,
     dimensions |-> <<Zero, Zero, Zero>>,
     scalebar_scale |-> One,
     offset_set |-> FALSE,
     constant_offset |-> Zero,
     labels |-> [n \in {Labels[k] : k \in 1..Len(Labels)} |-> TemplateLabel],
     colour |-> <<>>,
     has_material |-> FALSE,
     frame |-> 0]

\* the locals of render_mesh and get_mesh_args before they are assigned
FreshLocals ==
    [output_path |-> <<>>,
     k |-> 0,
     probed |-> <<>>,
     import_result |-> [is_set |-> TRUE, status |-> {}, op |-> "none"],
     default_scalebar_tick_size |-> Zero,
     rescale_factor |-> Zero,
     scalebar_rescale_factor |-> Zero,
     branch |-> "none",
     label_tick_size |-> Zero,
     i |-> 0,
     results |-> <<>>]

Procs == DOMAIN pc

\* a bpy call with its argument (0 when it has none worth recording)
Called(w, op, arg) == [calls EXCEPT ![w] = Append(@, <<op, arg>>)]

\* the process ends with an uncaught exception
Raise(w, e) ==
    /\ pc' = [pc EXCEPT ![w] = "raised"]
    /\ exc' = [exc EXCEPT ![w] = e]

Goto(w, label) ==
    /\ pc' = [pc EXCEPT ![w] = label]
    /\ exc' = exc

\* import_mesh (mesh.py 21-40): the value it returns for this mesh, an engine
\* status set or the integer 406
ImportMesh(w) ==
    LET op == ImportOperator(Suffix(Name(queue[w].mesh_path)))
    IN  IF op = "406"
        THEN [is_set |-> FALSE, status |-> {}, op |-> op]
        ELSE [is_set |-> TRUE, status |-> mesh[w].import_result, op |-> op]

----------------------------------------------------------------------------
(* render_mesh, mesh.py 106-315 *)

\* 108-124: read the queue item, resolve and create the output directory
ResolveOutput(w) ==
    /\ call[w] = "render_mesh" /\ pc[w] = "start"
    /\ loc' = [loc EXCEPT ![w].output_path = ResolveOutputPath(queue[w])]
    /\ dirs' = dirs \cup WithParents(ResolveOutputPath(queue[w]))
    /\ Goto(w, "open")
    /\ UNCHANGED <<given, ret, scene, calls, saved, failures>>

\* 126-136: open the template scene, set the resolution and the cursor
OpenScene(w) ==
    /\ pc[w] = "open"
    /\ scene' = [scene EXCEPT
                   ![w].loaded = TRUE,
                   ![w].objects = template,
                   ![w].device = "template",
                   ![w].engine = "template",
                   ![w].resolution =
                       <<queue[w].render_resolution, queue[w].render_resolution, 100>>]
    /\ calls' = Called(w, "wm.open_mainfile", 0)
    /\ Goto(w, "engine")
    /\ UNCHANGED <<given, ret, loc, dirs, saved, failures>>

\* 138-146: choose the render engine; Cycles starts the probe of the compute types
SelectEngine(w) ==
    /\ pc[w] = "engine"
    /\ IF queue[w].use_eevee
       THEN /\ scene' = [scene EXCEPT ![w].engine = "BLENDER_EEVEE"]
            /\ loc' = loc
            /\ Goto(w, "import")
       ELSE /\ scene' = [scene EXCEPT ![w].engine = "CYCLES"]
            /\ loc' = [loc EXCEPT ![w].k = 1]
            /\ Goto(w, "probe")
    /\ UNCHANGED <<given, ret, calls, dirs, saved, failures>>

\* 146-174: what one iteration of the loop leaves in compute_device_type
ProbedComputeType(k, active) ==
    IF ~ active /\ ComputeTypes[k] = "ONEAPI" THEN "NONE" ELSE ComputeTypes[k]

\* a loop without the CPU fallback after the last compute type
ProbedDevice_NoFallback(k, active, device) == IF active THEN "GPU" ELSE device

\* 146-174: what one iteration of the loop leaves in cycles.device
ProbedDevice(k, active, device) ==
    IF active THEN "GPU"
    ELSE IF ComputeTypes[k] = "ONEAPI" THEN "CPU"
    ELSE device

\* 146-174: whether the loop ends after this iteration
ProbeEnds(k, active) == active \/ k = Len(ComputeTypes)

\* 146-174: one iteration of the loop over the compute types; `active` is what
\* has_active_device() answers for the compute type just set
ProbeBackend(w) ==
    /\ pc[w] = "probe"
    /\ \E active \in BOOLEAN :
         LET k == loc[w].k
         IN  /\ scene' = [scene EXCEPT
                            ![w].compute_device_type = ProbedComputeType(k, active),
                            ![w].device = ProbedDevice(k, active, @)]
             /\ IF ProbeEnds(k, active)
                THEN /\ loc' = [loc EXCEPT ![w].probed = Append(@, active)]
                     /\ Goto(w, "import")
                ELSE /\ loc' = [loc EXCEPT ![w].probed = Append(@, active),
                                          ![w].k = k + 1]
                     /\ Goto(w, "probe")
    /\ UNCHANGED <<given, ret, calls, dirs, saved, failures>>

\* 176-180: import the mesh and test the result.  `"FINISHED" in 406` raises
\* TypeError: an int is not a container.
RenderImport(w) ==
    /\ call[w] = "render_mesh" /\ pc[w] = "import"
    /\ LET import_result == ImportMesh(w)
       IN  /\ loc' = [loc EXCEPT ![w].import_result = import_result]
           /\ IF ~ import_result.is_set
              THEN /\ Raise(w, "TypeError")
                   /\ UNCHANGED <<scene, calls>>
              ELSE /\ calls' = Called(w, import_result.op, 0)
                   /\ IF ImportFinished(import_result.status)
                      THEN /\ scene' = [scene EXCEPT
                                          ![w].has_obj = TRUE,
                                          ![w].dimensions = mesh[w].dimensions]
                           /\ Goto(w, "normalize")
                      ELSE /\ scene' = scene
                           /\ Goto(w, "quit")
    /\ UNCHANGED <<given, ret, dirs, saved, failures>>

\* 181-203: centre the object and apply the object scale factor
Normalize(w) ==
    /\ call[w] = "render_mesh" /\ pc[w] = "normalize"
    /\ scene' = [scene EXCEPT
                   ![w].dimensions = Scaled(@, queue[w].object_scale_factor)]
    /\ calls' = [calls EXCEPT ![w] =
                   @ \o << <<"object.origin_set", 0>>, <<"object.transform_apply", 0>>,
                           <<"object.transform_apply", 0>> >>]
    /\ Goto(w, "rescale")
    /\ UNCHANGED <<given, ret, loc, dirs, saved, failures>>

\* 211: rescale_factor = 1 / max(dimensions) * 10
UnitRescaleFactor(dimensions) == RMul(RDiv(One, MaxDimension(dimensions)), Ten)

\* the default tick size taken after the object is rescaled to 10 units
DefaultTickSize_AfterRescale(dimensions) ==
    IF MaxDimension(dimensions) = Zero THEN Zero
    ELSE RDiv(MaxDimension(Scaled(dimensions, UnitRescaleFactor(dimensions))), Ten)

\* 207: default_scalebar_tick_size
DefaultTickSize(dimensions) == RDiv(MaxDimension(dimensions), Ten)

\* 205-214: the default tick size, then the object rescaled to 10 units.
\* 1 / 0.0 raises ZeroDivisionError.
RescaleToTen(w) ==
    /\ pc[w] = "rescale"
    /\ LET dimensions == scene[w].dimensions
       IN  IF MaxDimension(dimensions) = Zero
           THEN /\ loc' = [loc EXCEPT
                             ![w].default_scalebar_tick_size = DefaultTickSize(dimensions)]
                /\ Raise(w, "ZeroDivisionError")
                /\ UNCHANGED <<scene, calls>>
           ELSE /\ loc' = [loc EXCEPT
                             ![w].default_scalebar_tick_size = DefaultTickSize(dimensions),
                             ![w].rescale_factor = UnitRescaleFactor(dimensions)]
                /\ scene' = [scene EXCEPT
                               ![w].dimensions = Scaled(@, UnitRescaleFactor(dimensions))]
                /\ calls' = Called(w, "object.transform_apply", 0)
                /\ Goto(w, "reconcile")
    /\ UNCHANGED <<given, ret, dirs, saved, failures>>

\* a comparison with >= in the place of >
RescalesObject_OrEqual(scalebar_tick_size, default_scalebar_tick_size) ==
    ~ RLt(scalebar_tick_size, default_scalebar_tick_size)

\* 217: scalebar_tick_size > default_scalebar_tick_size
RescalesObject(scalebar_tick_size, default_scalebar_tick_size) ==
    RLt(default_scalebar_tick_size, scalebar_tick_size)

\* the quotient of line 222 taken the other way round
ObjectRescaleFactor_Inverted(scalebar_tick_size, default_scalebar_tick_size) ==
    RDiv(scalebar_tick_size, default_scalebar_tick_size)

\* 222: the factor the object is shrunk by
ObjectRescaleFactor(scalebar_tick_size, default_scalebar_tick_size) ==
    RDiv(default_scalebar_tick_size, scalebar_tick_size)

\* a factor that follows the branch taken: the object factor in the object branch
ScalebarRescaleFactor_Chosen(scalebar_tick_size, default_scalebar_tick_size) ==
    IF RescalesObject(scalebar_tick_size, default_scalebar_tick_size)
    THEN RDiv(default_scalebar_tick_size, scalebar_tick_size)
    ELSE RDiv(scalebar_tick_size, default_scalebar_tick_size)

\* 226, 231: scalebar_rescale_factor in either branch
ScalebarRescaleFactor(scalebar_tick_size, default_scalebar_tick_size) ==
    IF RescalesObject(scalebar_tick_size, default_scalebar_tick_size)
    THEN One
    ELSE RDiv(scalebar_tick_size, default_scalebar_tick_size)

\* 216-241: rescale the object or the scale bar.  bpy.data.objects[name] raises
\* KeyError when the scene has no such object.
Reconcile(w) ==
    /\ pc[w] = "reconcile"
    /\ LET tick == queue[w].scalebar_tick_size
           default == loc[w].default_scalebar_tick_size
           sbf == ScalebarRescaleFactor(tick, default)
       IN  IF RescalesObject(tick, default)
           THEN /\ loc' = [loc EXCEPT
                             ![w].rescale_factor = ObjectRescaleFactor(tick, default),
                             ![w].scalebar_rescale_factor = sbf,
                             ![w].branch = "object"]
                /\ scene' = [scene EXCEPT
                               ![w].dimensions =
                                   Scaled(@, ObjectRescaleFactor(tick, default))]
                /\ calls' = Called(w, "object.transform_apply", 0)
                /\ Goto(w, "scalebar")
           ELSE /\ loc' = [loc EXCEPT
                             ![w].scalebar_rescale_factor = sbf,
                             ![w].branch = "scalebar"]
                /\ IF "Scale Bar" \in scene[w].objects
                   THEN /\ scene' = [scene EXCEPT ![w].scalebar_scale = sbf]
                        /\ calls' = Called(w, "object.transform_apply", 0)
                        /\ Goto(w, "scalebar")
                   ELSE /\ Raise(w, "KeyError")
                        /\ UNCHANGED <<scene, calls>>
    /\ UNCHANGED <<given, ret, dirs, saved, failures>>

\* 247: the offset of the Array modifier of the bottom scale bar
TickOffset(factor) == RDiv(Rat(-558, 100), factor)

\* 272-274: x.location[0] of a bottom label
LabelX(factor) ==
    RSub(RDiv(Rat(-515, 100), factor), RSub(RDiv(Rat(4, 10), factor), Rat(4, 10)))

\* 275: x.location[1] of a bottom label
LabelY(factor) == RDiv(Rat(-558, 100), factor)

\* 268: f"{label_tick_size} cm"
LabelBody(tick) ==
    StrLabel(LabelTickSize(tick), IsInteger(tick)) \o <<" ", "c", "m">>

\* 266-275: a label or stroke object after the loop
PlacedLabel(name, label, tick, factor) ==
    IF IsBottom(name)
    THEN [body |-> LabelBody(tick), moved |-> TRUE,
          x |-> LabelX(factor), y |-> LabelY(factor)]
    ELSE [label EXCEPT !.body = LabelBody(tick)]

\* 243-275: the tick offset of the scale bar, the label text and the label positions
PlaceScaleBar(w) ==
    /\ pc[w] = "scalebar"
    /\ LET tick == queue[w].scalebar_tick_size
           factor == loc[w].scalebar_rescale_factor
       IN  IF "Scale Bar" \notin scene[w].objects
           THEN /\ Raise(w, "KeyError")
                /\ UNCHANGED <<scene, loc>>
           ELSE IF ~ (DOMAIN scene[w].labels \subseteq scene[w].objects)
           THEN /\ scene' = [scene EXCEPT
                               ![w].offset_set = TRUE,
                               ![w].constant_offset = TickOffset(factor)]
                /\ loc' = [loc EXCEPT ![w].label_tick_size = LabelTickSize(tick)]
                /\ Raise(w, "KeyError")
           ELSE /\ scene' = [scene EXCEPT
                               ![w].offset_set = TRUE,
                               ![w].constant_offset = TickOffset(factor),
                               ![w].labels =
                                   [n \in DOMAIN @ |-> PlacedLabel(n, @[n], tick, factor)]]
                /\ loc' = [loc EXCEPT ![w].label_tick_size = LabelTickSize(tick)]
                /\ Goto(w, "material")
    /\ UNCHANGED <<given, ret, calls, dirs, saved, failures>>

\* 280-288: "#rrggbb" to the RGBA tuple, alpha ff
ColourTuple(object_colour) ==
    LET hex == LStripHash(object_colour) \o <<"f", "f">>
    IN  [c \in 1..4 |-> Rat(16 * HexVal(hex[2 * c - 1]) + HexVal(hex[2 * c]), 255)]

\* 277-297: colour the template material and give it to the object
ApplyMaterial(w) ==
    /\ pc[w] = "material"
    /\ scene' = [scene EXCEPT
                   ![w].colour = ColourTuple(queue[w].object_colour),
                   ![w].has_material = TRUE]
    /\ loc' = [loc EXCEPT ![w].i = 1]
    /\ Goto(w, "frames")
    /\ UNCHANGED <<given, ret, calls, dirs, saved, failures>>

\* 301: range(1, 7) ends after this frame
LastFrame == 6

\* 301: the frame after frame i
NextFrame(i) == i + 1

\* 301-312: whether the loop goes on after frame i was rendered with this result
\* (the result of bpy.ops.render.render() is not looked at)
LoopContinues(i, result) == i < LastFrame

\* 299-312: one iteration of the loop over the six frames
RenderFrame(w) ==
    /\ pc[w] = "frames"
    /\ \E result \in EngineResults :
         LET i == loc[w].i
             render_path == RenderPath(loc[w].output_path, queue[w].mesh_path, i,
                                       loc[w].label_tick_size,
                                       IsInteger(queue[w].scalebar_tick_size))
         IN  /\ "FINISHED" \notin result => failures < MaxRenderFailures
             /\ failures' = IF "FINISHED" \in result THEN failures ELSE failures + 1
             /\ scene' = [scene EXCEPT ![w].frame = i]
             /\ calls' = [calls EXCEPT ![w] =
                            @ \o << <<"scene.frame_set", i>>, <<"render.render", i>>,
                                    <<"save_render", i>> >>]
             /\ saved' = saved \cup {<<render_path, queue[w].index>>}
             /\ loc' = [loc EXCEPT
                          ![w].results = Append(@, [frame |-> i, result |-> result,
                                                    path |-> render_path]),
                          ![w].i = IF LoopContinues(i, result) THEN NextFrame(i) ELSE @]
             /\ IF LoopContinues(i, result) THEN Goto(w, "frames") ELSE Goto(w, "quit")
    /\ UNCHANGED <<given, ret, dirs>>

\* 314-315: quit the Blender instance and return
RenderQuit(w) ==
    /\ call[w] = "render_mesh" /\ pc[w] = "quit"
    /\ scene' = [scene EXCEPT ![w].running = FALSE]
    /\ calls' = Called(w, "wm.quit_blender", 0)
    /\ Goto(w, "returned")
    /\ UNCHANGED <<given, ret, loc, dirs, saved, failures>>

----------------------------------------------------------------------------
(* get_mesh_args, mesh.py 43-103 *)

NoArgs == [kind |-> "unset", dimensions |-> <<Zero, Zero, Zero>>,
           scalebar_tick_size |-> Zero]

\* 47-54: import the mesh and test the result
ArgsImport(w) ==
    /\ call[w] = "get_mesh_args" /\ pc[w] = "start"
    /\ LET import_result == ImportMesh(w)
       IN  /\ loc' = [loc EXCEPT ![w].import_result = import_result]
           /\ IF ~ import_result.is_set
              THEN /\ Raise(w, "TypeError")
                   /\ UNCHANGED <<scene, calls>>
              ELSE /\ calls' = Called(w, import_result.op, 0)
                   /\ IF ImportFinished(import_result.status)
                      THEN /\ scene' = [scene EXCEPT
                                          ![w].has_obj = TRUE,
                                          ![w].dimensions = mesh[w].dimensions]
                           /\ Goto(w, "measure")
                      ELSE /\ scene' = scene
                           /\ Goto(w, "quit")
    /\ UNCHANGED <<given, ret, dirs, saved, failures>>

\* 55-98: centre the object, compute the tick size and return.
\* math.log10(0.0) raises ValueError.
ArgsMeasure(w) ==
    /\ call[w] = "get_mesh_args" /\ pc[w] = "measure"
    /\ calls' = [calls EXCEPT ![w] =
                   @ \o << <<"object.origin_set", 0>>, <<"object.transform_apply", 0>> >>]
    /\ LET initial_scalebar_tick_size == DefaultTickSize(scene[w].dimensions)
       IN  IF initial_scalebar_tick_size = Zero
           THEN /\ Raise(w, "ValueError")
                /\ ret' = ret
           ELSE /\ ret' = [ret EXCEPT ![w] =
                             [kind |-> "args",
                              dimensions |-> scene[w].dimensions,
                              scalebar_tick_size |->
                                  NiceRound(initial_scalebar_tick_size)]]
                /\ Goto(w, "returned")
    /\ UNCHANGED <<given, loc, scene, dirs, saved, failures>>

\* 100-103: quit the Blender instance and return (None, None)
ArgsQuit(w) ==
    /\ call[w] = "get_mesh_args" /\ pc[w] = "quit"
    /\ scene' = [scene EXCEPT ![w].running = FALSE]
    /\ calls' = Called(w, "wm.quit_blender", 0)
    /\ ret' = [ret EXCEPT ![w] = [NoArgs EXCEPT !.kind = "none"]]
    /\ Goto(w, "returned")
    /\ UNCHANGED <<given, loc, dirs, saved, failures>>

----------------------------------------------------------------------------
(* The inputs *)

Ply == <<".", "p", "l", "y">>
Extensions == {Ply, <<".", "o", "b", "j">>, <<".", "s", "t", "l">>,
               <<".", "d", "a", "e">>, <<".", "x", "y", "z">>}
Stems == {<<"p">>, <<"p", ".", "q">>, <<"p", "_", "q">>}
Folders == {<<"a">>, <<"b">>}

\* mesh files: folder / stem + extension
MeshPath(folder, stem, extension) == <<folder, stem \o extension>>

OutputRoot == << <<"o", "u", "t">> >>

\* requested tick sizes and object scale factors, all positive
TickSizes == {Rat(n, d) : n \in 1..MaxNum, d \in {1, 5}}
ScaleFactors == {Rat(n, d) : n \in 1..MaxNum, d \in {1, 2}}

\* bounding boxes; the first is the degenerate one
Boxes == {<<Zero, Zero, Zero>>, <<Rat(2, 1), Rat(2, 1), Rat(2, 1)>>,
          <<Ten, Ten, Ten>>, <<Rat(3, 1), Rat(20, 1), One>>}

\* what a mesh file holds: a box, imported or not (a failed import has no box)
MeshFiles ==
    [dimensions : Boxes, import_result : {{"FINISHED"}}]
    \cup [dimensions : {<<Zero, Zero, Zero>>}, import_result : {{"CANCELLED"}}]

\* the template scene as bundled, and one that lacks the scale bar
Templates == {TemplateObjects, TemplateObjects \ {"Scale Bar"}}

\* config.py 28, 34: the default resolution and colour
DefaultResolution == 1920
DefaultColour == <<"#", "8", "0", "8", "0", "8", "0">>

Item(mesh_path, separate, eevee, factor, tick, index) ==
    [mesh_path |-> mesh_path,
     output_path |-> OutputRoot,
     separate_output_directories |-> separate,
     use_eevee |-> eevee,
     render_resolution |-> DefaultResolution,
     object_scale_factor |-> factor,
     scalebar_tick_size |-> tick,
     object_colour |-> DefaultColour,
     index |-> index]

\* the queue items of a single render, and the argument of a single get_mesh_args
RenderItems ==
    {Item(MeshPath(<<"a">>, <<"p">>, e), s, v, f, t, 1) :
        e \in Extensions, s \in BOOLEAN, v \in BOOLEAN,
        f \in ScaleFactors, t \in TickSizes}
ArgsItems ==
    {Item(MeshPath(<<"a">>, <<"p">>, e), TRUE, TRUE, One, One, 1) : e \in Extensions}

Start(ws) ==
    /\ pc = [w \in ws |-> "start"]
    /\ exc = [w \in ws |-> "none"]
    /\ ret = [w \in ws |-> NoArgs]
    /\ loc = [w \in ws |-> FreshLocals]
    /\ scene = [w \in ws |-> FreshScene]
    /\ calls = [w \in ws |-> <<>>]
    /\ dirs = {OutputRoot}
    /\ saved = {}
    /\ failures = 0

\* one process, running either entry point
Init ==
    /\ \E c \in {"render_mesh", "get_mesh_args"} :
         /\ call = [w \in {1} |-> c]
         /\ \E item \in IF c = "render_mesh" THEN RenderItems ELSE ArgsItems :
              queue = [w \in {1} |-> item]
    /\ \E m \in MeshFiles : mesh = [w \in {1} |-> m]
    /\ template \in Templates
    /\ Start({1})

Step(w) ==
    \/ ResolveOutput(w)
    \/ OpenScene(w)
    \/ SelectEngine(w)
    \/ ProbeBackend(w)
    \/ RenderImport(w)
    \/ Normalize(w)
    \/ RescaleToTen(w)
    \/ Reconcile(w)
    \/ PlaceScaleBar(w)
    \/ ApplyMaterial(w)
    \/ RenderFrame(w)
    \/ RenderQuit(w)
    \/ ArgsImport(w)
    \/ ArgsMeasure(w)
    \/ ArgsQuit(w)

Next == \E w \in Procs : Step(w)

Spec == Init /\ [][Next]_vars

----------------------------------------------------------------------------
(* A batch: BatchSize jobs, one worker process each, running concurrently *)

\* the mesh files of a batch: different files, some with the same name, some
\* with names that differ only in a dot
BatchMeshPaths ==
    {MeshPath(<<"a">>, <<"p", ".", "q">>, Ply), MeshPath(<<"a">>, <<"p", "_", "q">>, Ply),
     MeshPath(<<"b">>, <<"p", ".", "q">>, Ply), MeshPath(<<"a">>, <<"p">>, Ply)}

\* the meshes of the jobs 1..BatchSize of a batch: pairwise different files
Batches ==
    {b \in [1..BatchSize -> BatchMeshPaths] :
        /\ b[1] = MeshPath(<<"a">>, <<"p", ".", "q">>, Ply)
        /\ \A i, j \in 1..BatchSize : i # j => b[i] # b[j]}

\* the jobs share the settings of the batch; job 1 alone may use Cycles
InitBatch ==
    /\ call = [w \in 1..BatchSize |-> "render_mesh"]
    /\ \E b \in Batches, separate \in BOOLEAN, eevee \in BOOLEAN,
          tick \in {One, Rat(1, 5)} :
         queue = [w \in 1..BatchSize |->
                    Item(b[w], separate, eevee \/ w > 1, One, tick, w)]
    /\ mesh = [w \in 1..BatchSize |->
                 [dimensions |-> <<Rat(2, 1), Rat(2, 1), Rat(2, 1)>>,
                  import_result |-> {"FINISHED"}]]
    /\ template = TemplateObjects
    /\ Start(1..BatchSize)

RenderStep(w) ==
    \/ ResolveOutput(w)
    \/ OpenScene(w)
    \/ SelectEngine(w)
    \/ ProbeBackend(w)
    \/ RenderImport(w)
    \/ Normalize(w)
    \/ RescaleToTen(w)
    \/ Reconcile(w)
    \/ PlaceScaleBar(w)
    \/ ApplyMaterial(w)
    \/ RenderFrame(w)
    \/ RenderQuit(w)

NextBatch == \E w \in Procs : RenderStep(w)

SpecBatch == InitBatch /\ [][NextBatch]_vars

----------------------------------------------------------------------------
(* Vocabulary of the properties *)

Ended(w) == pc[w] \in {"returned", "raised"}
Rendering(w) == call[w] = "render_mesh"
Unsupported(w) == ImportOperator(Suffix(Name(queue[w].mesh_path))) = "406"
\* the engine was asked to import the mesh and answered
EngineAnswered(w) == loc[w].import_result.op \notin {"none", "406"}
ImportFailed(w) == EngineAnswered(w) /\ "FINISHED" \notin loc[w].import_result.status
ImportSucceeded(w) == EngineAnswered(w) /\ "FINISHED" \in loc[w].import_result.status
OpsCalled(w) == {calls[w][k][1] : k \in 1..Len(calls[w])}
QuitReached(w) == "wm.quit_blender" \in OpsCalled(w) /\ ~ scene[w].running
FramesOf(w) == [k \in 1..Len(loc[w].results) |-> loc[w].results[k].frame]
\* the largest dimension of the object, in ticks of 10 to the object
ObjectStepFactor(w) == RDiv(MaxDimension(scene[w].dimensions), Ten)

----------------------------------------------------------------------------
(* C1 *)

\* C1: a job whose mesh has an extension other than .ply, .obj, .stl, .dae ends
\* in a failure that is a value, not an exception, and no engine call is made
\* for it before that.
C1_UnsupportedFailsBeforeEngine ==
    \A w \in Procs :
        Rendering(w) /\ Unsupported(w) => calls[w] = <<>> /\ exc[w] = "none"

----------------------------------------------------------------------------
(* C2 *)

\* C2: on every path of render_mesh the Blender instance is quit before the
\* worker ends.
C2_QuitOnEveryPath ==
    \A w \in Procs : Rendering(w) /\ Ended(w) => QuitReached(w)

----------------------------------------------------------------------------
(* C3 *)

\* the calls render_mesh makes after a mesh import
AfterImportOps == {"object.origin_set", "object.transform_apply", "scene.frame_set",
                   "render.render", "save_render"}

\* C3: when the engine's import result has no FINISHED, render_mesh neither
\* normalizes nor rescales nor touches scale bar, labels or material nor renders
\* a frame, get_mesh_args returns (None, None), no exception ends the process,
\* and the Blender instance is quit before the function returns.
C3_ImportFailureTerminal ==
    \A w \in Procs :
        ImportFailed(w) =>
            /\ pc[w] \in {"quit", "returned"}
            /\ pc[w] = "returned" => QuitReached(w)
            /\ OpsCalled(w) \cap AfterImportOps = {}
            /\ ~ scene[w].has_obj
            /\ scene[w].scalebar_scale = One
            /\ ~ scene[w].offset_set
            /\ \A n \in DOMAIN scene[w].labels : scene[w].labels[n] = TemplateLabel
            /\ ~ scene[w].has_material
            /\ loc[w].results = <<>>
            /\ \A e \in saved : e[2] # queue[w].index
            /\ (call[w] = "get_mesh_args" /\ pc[w] = "returned") => ret[w].kind = "none"
            /\ Rendering(w) => ret[w].kind = "unset"

C3_Witness ==
    \E w \in Procs :
        /\ Rendering(w) /\ ImportFailed(w)
        /\ pc[w] = "returned" /\ QuitReached(w)

----------------------------------------------------------------------------
(* C4 *)

\* C4, as stated: if requested tick > default tick the object is rescaled by a
\* factor < 1 and the scale-bar factor is exactly 1; otherwise the scale bar is
\* rescaled by a factor < 1 and the object is not rescaled.
C4_Original ==
    \A w \in Procs :
        loc[w].branch # "none" =>
            IF RLt(loc[w].default_scalebar_tick_size, queue[w].scalebar_tick_size)
            THEN /\ RLt(ObjectStepFactor(w), One)
                 /\ loc[w].scalebar_rescale_factor = One
            ELSE /\ RLt(loc[w].scalebar_rescale_factor, One)
                 /\ ObjectStepFactor(w) = One

\* C4, amended: exactly one branch is taken.  If requested tick > default tick
\* the object is rescaled by default/requested < 1 and the scale-bar factor is
\* exactly 1 (the scale bar keeps its scale); otherwise the object is not
\* rescaled and the scale-bar factor is requested/default <= 1, which is 1
\* exactly when requested = default.
C4_Reconciliation ==
    \A w \in Procs :
        LET tick == queue[w].scalebar_tick_size
            default == loc[w].default_scalebar_tick_size
            factor == loc[w].scalebar_rescale_factor
        IN  /\ loc[w].branch \in {"none", "object", "scalebar"}
            /\ loc[w].branch = "object" =>
                 /\ RLt(default, tick)
                 /\ RLt(ObjectStepFactor(w), One)
                 /\ RMul(ObjectStepFactor(w), tick) = default
                 /\ factor = One
                 /\ scene[w].scalebar_scale = One
            /\ loc[w].branch = "scalebar" =>
                 /\ ~ RLt(default, tick)
                 /\ ObjectStepFactor(w) = One
                 /\ ~ RLt(One, factor)
                 /\ RMul(factor, default) = tick
                 /\ (factor = One) <=> (tick = default)
                 /\ exc[w] # "KeyError" => scene[w].scalebar_scale = factor

\* the tie: requested tick = default tick, scale-bar branch, factor 1
C4_Witness ==
    \E w \in Procs :
        /\ loc[w].branch = "scalebar"
        /\ queue[w].scalebar_tick_size = loc[w].default_scalebar_tick_size
        /\ loc[w].scalebar_rescale_factor = One
        /\ pc[w] = "returned"

----------------------------------------------------------------------------
(* C5 *)

\* C5: two jobs of one batch, with different meshes and distinct indices, never
\* write the same output file, in whatever order they run and with or without
\* separate output directories.
C5_OutputsDisjoint ==
    \A e1, e2 \in saved : e1[1] = e2[1] => e1[2] = e2[2]

----------------------------------------------------------------------------
(* C6 *)

\* C6: if the engine reports non-success for the render of frame k, no frame
\* after k is rendered or saved and the job does not end as a successful one.
C6_RenderFailureTerminal ==
    \A w \in Procs :
        \A k \in 1..Len(loc[w].results) :
            "FINISHED" \notin loc[w].results[k].result =>
                /\ Len(loc[w].results) = k
                /\ pc[w] # "returned"

----------------------------------------------------------------------------
(* C7 *)

Degenerate(w) == ImportSucceeded(w) /\ MaxDimension(mesh[w].dimensions) = Zero

\* C7: a mesh whose largest dimension is 0 is rejected before reconciliation in
\* get_mesh_args and in render_mesh: neither log10(0) nor a division by zero is
\* evaluated, nothing is rescaled and no frame is rendered.
C7_DegenerateRejected ==
    \A w \in Procs :
        /\ exc[w] \notin {"ZeroDivisionError", "ValueError"}
        /\ Degenerate(w) => loc[w].branch = "none" /\ loc[w].results = <<>>

----------------------------------------------------------------------------
(* C8 *)

\* C8: a job whose import succeeds renders exactly the frames 1, 2, ..., 6, in
\* that order and once each, and saves them to six different files of its
\* output directory.
C8_SixFrames ==
    \A w \in Procs :
        Rendering(w) /\ ImportSucceeded(w) =>
            /\ FramesOf(w) = [k \in 1..Len(loc[w].results) |-> k]
            /\ \A j, k \in 1..Len(loc[w].results) :
                 /\ j # k => loc[w].results[j].path # loc[w].results[k].path
                 /\ SubSeq(loc[w].results[k].path, 1, Len(loc[w].results[k].path) - 1)
                      = ResolveOutputPath(queue[w])
                 /\ <<loc[w].results[k].path, queue[w].index>> \in saved
            /\ Ended(w) => Len(loc[w].results) = LastFrame

----------------------------------------------------------------------------
(* C9 *)

\* the probe of the compute types is over
Probed(w) ==
    Rendering(w) /\ ~ queue[w].use_eevee /\ pc[w] \notin {"start", "open", "engine", "probe"}

\* C9: with Cycles, the compute types are tried in the order CUDA, OPTIX, HIP,
\* ONEAPI up to the first one with an active device, which stays selected with
\* the device GPU; with none, the compute type ends as NONE and the device as
\* CPU.  Whatever the answers, the probe ends with the device GPU or CPU and
\* without an exception.
C9_BackendProbe ==
    \A w \in Procs :
        LET answers == loc[w].probed
            n == Len(answers)
        IN  /\ n <= 4
            /\ \A j \in 1..(n - 1) : ~ answers[j]
            /\ pc[w] = "probe" => loc[w].k = n + 1 /\ exc[w] = "none"
            /\ Probed(w) =>
                 /\ n >= 1
                 /\ answers[n] =>
                      /\ scene[w].compute_device_type
                           = <<"CUDA", "OPTIX", "HIP", "ONEAPI">>[n]
                      /\ scene[w].device = "GPU"
                 /\ ~ answers[n] =>
                      /\ n = 4
                      /\ scene[w].compute_device_type = "NONE"
                      /\ scene[w].device = "CPU"
                 /\ scene[w].device \in {"GPU", "CPU"}
                 /\ pc[w] = "import" => exc[w] = "none"
            /\ (Rendering(w) /\ queue[w].use_eevee) => n = 0

\* CUDA and OPTIX have no active device, HIP has one
C9_Witness ==
    \E w \in Procs :
        /\ Probed(w)
        /\ loc[w].probed = <<FALSE, FALSE, TRUE>>
        /\ scene[w].compute_device_type = "HIP"
        /\ scene[w].device = "GPU"
        /\ pc[w] = "returned"

----------------------------------------------------------------------------
(* C10 *)

\* the 2 x 2 x 2 cube with scale factor 1 and requested tick 1
IsUnitCubeJob(w) ==
    /\ mesh[w].dimensions = <<Rat(2, 1), Rat(2, 1), Rat(2, 1)>>
    /\ queue[w].object_scale_factor = One
    /\ queue[w].scalebar_tick_size = One

\* C10, as stated: the default tick compared with the requested tick is the one
\* of the object rescaled to 10 units, hence 1 for every job; the 2 x 2 x 2 cube
\* with requested tick 1 is a tie and takes the scale-bar branch with factor 1.
C10_Original ==
    \A w \in Procs :
        loc[w].branch # "none" =>
            /\ loc[w].default_scalebar_tick_size = One
            /\ IsUnitCubeJob(w) =>
                 /\ loc[w].branch = "scalebar"
                 /\ loc[w].scalebar_rescale_factor = One

\* C10, amended: the default tick compared with the requested tick is computed
\* after the object scale factor is applied and before the object is rescaled
\* to 10 units, so it is scale factor x largest mesh dimension / 10; the
\* 2 x 2 x 2 cube with scale factor 1 and requested tick 1 has default tick 1/5
\* and takes the object branch with object factor 1/5 and scale-bar factor 1;
\* a job whose requested tick equals its default tick takes the scale-bar
\* branch with factor 1.
C10_DefaultTick ==
    \A w \in Procs :
        loc[w].branch # "none" =>
            /\ loc[w].default_scalebar_tick_size
                 = RDiv(RMul(queue[w].object_scale_factor,
                             MaxDimension(mesh[w].dimensions)), Ten)
            /\ IsUnitCubeJob(w) =>
                 /\ loc[w].default_scalebar_tick_size = Rat(1, 5)
                 /\ loc[w].branch = "object"
                 /\ loc[w].rescale_factor = Rat(1, 5)
                 /\ ObjectStepFactor(w) = Rat(1, 5)
                 /\ loc[w].scalebar_rescale_factor = One
            /\ queue[w].scalebar_tick_size = loc[w].default_scalebar_tick_size =>
                 /\ loc[w].branch = "scalebar"
                 /\ loc[w].scalebar_rescale_factor = One

\* the cube job after reconciliation
C10_Witness ==
    \E w \in Procs :
        /\ IsUnitCubeJob(w)
        /\ loc[w].branch = "object"
        /\ loc[w].default_scalebar_tick_size = Rat(1, 5)
        /\ pc[w] = "returned"

----------------------------------------------------------------------------
(* C11 *)

\* the scale bar and the labels have been placed (lines 243-275 ran to the end)
Placed(w) ==
    /\ Rendering(w) /\ ImportSucceeded(w)
    /\ pc[w] \in {"material", "frames", "quit", "returned"}

\* the rescale factor of the branch taken: default/requested for the object
\* branch, requested/default for the scale-bar branch
ChosenFactor(w) ==
    IF loc[w].branch = "object"
    THEN RDiv(loc[w].default_scalebar_tick_size, queue[w].scalebar_tick_size)
    ELSE RDiv(queue[w].scalebar_tick_size, loc[w].default_scalebar_tick_size)

\* the tick offset and the positions of the bottom label and stroke are those
\* of the factor f, and the left label and stroke are where the template has them
PlacedBy(w, f) ==
    /\ scene[w].offset_set
    /\ scene[w].constant_offset = RDiv(Rat(-558, 100), f)
    /\ \A n \in {"Scale Label Bottom", "Scale Stroke Bottom"} :
         /\ scene[w].labels[n].moved
         /\ scene[w].labels[n].x
              = RSub(RDiv(Rat(-515, 100), f), RSub(RDiv(Rat(4, 10), f), Rat(4, 10)))
         /\ scene[w].labels[n].y = RDiv(Rat(-558, 100), f)
    /\ \A n \in {"Scale Label Left", "Scale Stroke Left"} :
         /\ ~ scene[w].labels[n].moved
         /\ scene[w].labels[n].x = TemplateLabel.x
         /\ scene[w].labels[n].y = TemplateLabel.y

\* C11, as stated: in both branches the tick offset and the bottom label and
\* stroke positions are computed from the rescale factor of the branch taken
\* (default/requested in the object branch, requested/default otherwise); the
\* left label and stroke keep their template position.
C11_Original ==
    \A w \in Procs : Placed(w) => PlacedBy(w, ChosenFactor(w))

\* C11, amended: in both branches the tick offset and the bottom label and
\* stroke positions are computed from the scale-bar rescale factor, which is
\* 1.0 in the object branch (not the object factor) and requested/default in
\* the scale-bar branch; the left label and stroke keep their template position.
C11_ScaleBarPlacement ==
    \A w \in Procs :
        /\ Placed(w) =>
             /\ loc[w].branch \in {"object", "scalebar"}
             /\ PlacedBy(w, IF loc[w].branch = "object" THEN One ELSE ChosenFactor(w))
             /\ scene[w].scalebar_scale
                  = (IF loc[w].branch = "object" THEN One ELSE ChosenFactor(w))
        /\ (Rendering(w) /\ pc[w] \in {"start", "open", "engine", "probe", "import",
                                      "normalize", "rescale", "reconcile"}) =>
             /\ ~ scene[w].offset_set
             /\ \A n \in DOMAIN scene[w].labels : ~ scene[w].labels[n].moved

\* the object branch with factor 1/5: the offsets are those of the factor 1
C11_Witness ==
    \E w \in Procs :
        /\ Placed(w)
        /\ loc[w].branch = "object"
        /\ ChosenFactor(w) = Rat(1, 5)
        /\ scene[w].constant_offset = Rat(-558, 100)
        /\ scene[w].labels["Scale Label Bottom"].x = Rat(-515, 100)
        /\ scene[w].labels["Scale Label Bottom"].y = Rat(-558, 100)
        /\ pc[w] = "returned"

----------------------------------------------------------------------------
(* C12 *)

\* the object and the scale bar of the scene after lines 216-241
Reconciled(w) ==
    /\ Rendering(w)
    /\ loc[w].branch # "none"
    /\ exc[w] # "KeyError"

\* the number of scale-bar ticks the object spans in the scene
TicksSpanned(w) == RDiv(MaxDimension(scene[w].dimensions), scene[w].scalebar_scale)

\* the number of requested ticks the scaled mesh measures
TicksMeasured(w) ==
    RDiv(RMul(queue[w].object_scale_factor, MaxDimension(mesh[w].dimensions)),
         queue[w].scalebar_tick_size)

\* C12: for every job with positive dimensions, object scale factor s and
\* requested tick t, after reconciliation in either branch the largest
\* dimension of the object divided by the scale of the scale bar equals
\* s x largest mesh dimension / t, and from the rescale to 10 units on the
\* largest dimension of the object is at most 10.
C12_ScaleConsistency ==
    \A w \in Procs :
        /\ Reconciled(w) =>
             /\ TicksSpanned(w) = TicksMeasured(w)
             /\ ~ RLt(Ten, MaxDimension(scene[w].dimensions))
             /\ RLt(Zero, scene[w].scalebar_scale)
        /\ (Rendering(w) /\ pc[w] = "reconcile") =>
             MaxDimension(scene[w].dimensions) = Ten

\* a job with object scale factor 1/2 whose scale bar was shrunk
C12_Witness ==
    \E w \in Procs :
        /\ Reconciled(w)
        /\ loc[w].branch = "scalebar"
        /\ queue[w].object_scale_factor = Rat(1, 2)
        /\ RLt(scene[w].scalebar_scale, One)
        /\ TicksSpanned(w) = TicksMeasured(w)
        /\ pc[w] = "returned"

====
